---- MODULE Spec2Model ----
(***************************************************************************)
(* Model of src/src/lib/polygon_api.py: the tier feature table, the        *)
(* PolygonAPI client (request layer, TTL cache, feature-gated endpoint     *)
(* methods) and the process-wide accessor get_polygon_api /                *)
(* refresh_polygon_api; and of their two callers,                          *)
(* SettingsPage._save_settings (src/src/components/settings_page.py) and   *)
(* MainWindow._refresh_data (src/src/main_window.py).                      *)
(*                                                                         *)
(* Python values are records tagged by `py`:                               *)
(*   [py |-> "None"]                    None                               *)
(*   [py |-> "dict", k1 |-> v1, ...]    a dict; its keys are the fields     *)
(*   [py |-> "list", items |-> <<..>>]  a list                              *)
(*   [py |-> "num", v |-> n]            a number (prices are in cents)      *)
(*   [py |-> "str", s |-> s]            a string                            *)
(*   [py |-> "tuple", ok |-> b, msg |-> s]  the pair test_connection gives  *)
(*   [py |-> "raise", exc |-> e]        the call raised e to its caller     *)
(*   [py |-> "data", what |-> q, rev |-> n]  what database query q gives    *)
(*   [py |-> "rankings", ...]           what the market-rankings card shows *)
(* Time is in seconds, as datetime.now() and timedelta(seconds=...).       *)
(***************************************************************************)
EXTENDS Integers, Sequences, FiniteSets, TLC

VARIABLES
    settings,       \* the persisted settings store: setting key -> value
    instance,       \* _api_instance: 0 is None, n > 0 the n-th PolygonAPI built
    api_key,        \* PolygonAPI.api_key of that client
    tier,           \* PolygonAPI.tier
    cache,          \* PolygonAPI._cache        : cache key -> value
    cache_expiry,   \* PolygonAPI._cache_expiry : cache key -> expiry instant
    stored_by,      \* history: cache key -> the instance whose call stored it
    now,            \* datetime.now()
    ticks,          \* number of clock advances so far (bounded by MaxTicks)
    pending,        \* the get_index_performance call in progress, if any
    last,           \* the last event: the call made, what it returned, the
                    \* requests it sent (in order)
    db_rev,         \* the revision of the trade data in the database
    dashboard,      \* MainWindow: what each widget shows, the client the
                    \* last refresh used
    positions_data, \* PositionsTable.positions_data
    table,          \* PositionsTable.table: its rows, top to bottom
    selected        \* the row selected in it (Qt row index), -1 when none

clientVars == <<instance, api_key, tier, cache, cache_expiry, stored_by>>
tableVars == <<positions_data, table, selected>>
uiVars == <<db_rev, dashboard, tableVars>>
vars == <<settings, instance, api_key, tier, cache, cache_expiry, stored_by,
          now, ticks, pending, last, db_rev, dashboard, positions_data, table,
          selected>>

----------------------------------------------------------------------------
(* Bounds and input domains *)

MaxTicks == 2
MaxBars == 2
MaxInstances == 3

ApiKeys == {"", "k1"}
Tiers == {"free", "starter", "advanced", "business", "platinum"}
Tickers == {"AAPL", "aapl"}
TimedTickers == {"AAPL"}
IndexDays == {30, 365}

\* what the settings store may be given
SettingValues ==
    [polygon_api_key |-> {"", "k1", "k2"},
     polygon_tier    |-> {"", "starter", "advanced"}]

----------------------------------------------------------------------------
(* Python values *)

None == [py |-> "None"]
EmptyDict == [py |-> "dict"]
EmptyList == [py |-> "list", items |-> <<>>]
Num(n) == [py |-> "num", v |-> n]
List(s) == [py |-> "list", items |-> s]
Raise(e) == [py |-> "raise", exc |-> e]

\* bool(v)
Truthy(v) ==
    CASE v.py = "None" -> FALSE
      [] v.py = "dict" -> DOMAIN v # {"py"}
      [] v.py = "list" -> Len(v.items) > 0
      [] v.py = "num"  -> v.v # 0
      [] v.py = "str"  -> v.s # ""
      [] OTHER -> TRUE

\* d.get(k, default) on a dict d
DictGet(d, k, default) == IF k \in DOMAIN d THEN d[k] ELSE default

\* str.upper() on the tickers of the model
Upper(t) == IF t = "aapl" THEN "AAPL" ELSE t

----------------------------------------------------------------------------
(* Tier feature table *)

\* the table with greeks missing from the business tier
TIER_FEATURES_business_without_greeks ==
    [free     |-> {"endOfDayPrices", "tickerSearch"},
     starter  |-> {"endOfDayPrices", "tickerSearch", "delayedQuotes",
                   "optionsChain", "greeks", "iv"},
     advanced |-> {"endOfDayPrices", "tickerSearch", "realtimeQuotes",
                   "optionsChain", "greeks", "iv"},
     business |-> {"endOfDayPrices", "tickerSearch", "realtimeQuotes",
                   "optionsChain", "iv", "historicalOptions"}]

TIER_FEATURES ==
    [free     |-> {"endOfDayPrices", "tickerSearch"},
     starter  |-> {"endOfDayPrices", "tickerSearch", "delayedQuotes",
                   "optionsChain", "greeks", "iv"},
     advanced |-> {"endOfDayPrices", "tickerSearch", "realtimeQuotes",
                   "optionsChain", "greeks", "iv"},
     business |-> {"endOfDayPrices", "tickerSearch", "realtimeQuotes",
                   "optionsChain", "greeks", "iv", "historicalOptions"}]

\* available_features with no fallback: TIER_FEATURES.get(tier, [])
available_features_no_fallback(tr) ==
    IF tr \in DOMAIN TIER_FEATURES THEN TIER_FEATURES[tr] ELSE {}

\* PolygonAPI.available_features: TIER_FEATURES.get(tier, TIER_FEATURES['free'])
available_features(tr) ==
    IF tr \in DOMAIN TIER_FEATURES THEN TIER_FEATURES[tr] ELSE TIER_FEATURES["free"]

\* has_feature looking the feature up in the business tier's list
has_feature_business(tr, feature) == feature \in TIER_FEATURES["business"]

\* PolygonAPI.has_feature
has_feature(tr, feature) == feature \in available_features(tr)

----------------------------------------------------------------------------
(* What requests.get(...), raise_for_status() and response.json() can give *)

\* a requests.exceptions.RequestException: timeout, connection refused,
\* non-2xx status (raise_for_status) or a body that is not JSON (json())
Exc(why) == [kind |-> "exc", why |-> why]
\* a 2xx response whose body parsed to the JSON value `body`
Json(body) == [kind |-> "json", body |-> body]

Failures == {Exc("timeout"), Exc("refused"), Exc("http_status"), Exc("bad_json")}

\* envelopes that carry no success status
NonSuccessBodies ==
    {None,                                                   \* null
     EmptyDict,                                              \* {}
     [py |-> "dict", status |-> "NOT_FOUND"],
     [py |-> "dict", status |-> "ERROR", error |-> "Unknown API Key"]}

\* a JSON document that is not an object: a non-empty array
NonObjectBody == List(<<EmptyDict>>)

\* success envelopes: without a results key, or with one of `payloads`
OkBodies(payloads) ==
    {[py |-> "dict", status |-> "OK"]}
    \cup {[py |-> "dict", status |-> "OK", results |-> r] : r \in payloads}

Responses(payloads) ==
    Failures \cup {Json(b) : b \in NonSuccessBodies \cup {NonObjectBody} \cup OkBodies(payloads)}

DetailsPayloads == {EmptyDict, [py |-> "dict", name |-> "Apple Inc."]}

PrevBars ==
    {[py |-> "dict", c |-> Num(10150), o |-> Num(10000), h |-> Num(10200),
      l |-> Num(9900), v |-> Num(5000), vw |-> Num(10100), t |-> Num(1)]}
PrevPayloads == {EmptyList} \cup {List(<<b>>) : b \in PrevBars}

TradePayloads == {EmptyDict, [py |-> "dict", p |-> Num(10200)]}

ListPayloads == {EmptyList, List(<<[py |-> "dict", ticker |-> "AAPL"]>>)}

\* daily bars: closes of 0, 400.00 and 420.00, up to MaxBars bars
BarCloses == {0, 40000, 42000}
Bar(close) == [py |-> "dict", c |-> Num(close)]
BarSeqs == UNION {[1..n -> {Bar(x) : x \in BarCloses}] : n \in 0..MaxBars}
AggPayloads == {List(b) : b \in BarSeqs}

----------------------------------------------------------------------------
(* Request / cache layer *)

\* the result of a method: what it returned (or raised), the cache it left,
\* the requests it sent
Out(ret, c, e, reqs) == [ret |-> ret, cache |-> c, expiry |-> e, reqs |-> reqs]

\* the value an expiry lookup defaults to: datetime.min, before every instant
DATETIME_MIN == -1

\* _make_request without its api_key check
make_request_keyless(k, endpoint, resp) ==
    [value |-> IF resp.kind = "exc" THEN None ELSE resp.body,
     reqs  |-> <<[endpoint EXCEPT !.apiKey = k]>>]

\* PolygonAPI._make_request: no request without a key; a RequestException
\* is caught and gives None; otherwise whatever response.json() returned
make_request(k, endpoint, resp) ==
    IF k = ""
    THEN [value |-> None, reqs |-> <<>>]
    ELSE [value |-> IF resp.kind = "exc" THEN None ELSE resp.body,
          reqs  |-> <<[endpoint EXCEPT !.apiKey = k]>>]

\* `result and result.get('status') == 'OK'`: "raise" when result is truthy
\* and has no .get (AttributeError)
OkCheck(result) ==
    IF ~Truthy(result) THEN "no"
    ELSE IF result.py # "dict" THEN "raise"
    ELSE IF "status" \in DOMAIN result /\ result.status = "OK" THEN "ok"
    ELSE "no"

\* _get_cached with the expiry instant still counted as fresh
get_cached_inclusive(c, e, t, key) ==
    IF key \in DOMAIN c /\ key \in DOMAIN e /\ t <= e[key] THEN c[key] ELSE None

\* PolygonAPI._get_cached
get_cached(c, e, t, key) ==
    IF key \in DOMAIN c
    THEN IF t < (IF key \in DOMAIN e THEN e[key] ELSE DATETIME_MIN)
         THEN c[key]
         ELSE None
    ELSE None

\* dict assignment d[key] = value
DictSet(d, key, value) ==
    [x \in DOMAIN d \cup {key} |-> IF x = key THEN value ELSE d[x]]

\* _set_cached that stores the value and records no expiry
set_cached_value_only(c, e, t, key, value, ttl_seconds) ==
    [cache  |-> DictSet(c, key, value),
     expiry |-> e]

\* _set_cached that drops the entries that have expired as it stores
set_cached_purging(c, e, t, key, value, ttl_seconds) ==
    LET live == {x \in DOMAIN c : x # key /\ x \in DOMAIN e /\ t < e[x]}
    IN  [cache  |-> [x \in live \cup {key} |-> IF x = key THEN value ELSE c[x]],
         expiry |-> [x \in live \cup {key} |->
                        IF x = key THEN t + ttl_seconds ELSE e[x]]]

\* _set_cached that leaves an entry already stored as it is (setdefault)
set_cached_once(c, e, t, key, value, ttl_seconds) ==
    IF key \in DOMAIN c
    THEN [cache |-> c, expiry |-> e]
    ELSE [cache  |-> DictSet(c, key, value),
          expiry |-> DictSet(e, key, t + ttl_seconds)]

\* PolygonAPI._set_cached: the two maps after the call
set_cached(c, e, t, key, value, ttl_seconds) ==
    [cache  |-> DictSet(c, key, value),
     expiry |-> DictSet(e, key, t + ttl_seconds)]

\* the default `limit` of get_aggregate_bars
DefaultLimit == 120

\* the TTLs the endpoint methods pass
TICKER_DETAILS_TTL == 86400
PREV_CLOSE_TTL == 3600

----------------------------------------------------------------------------
(* Endpoint methods.  k, tr, c, e are the client's api_key, tier, _cache   *)
(* and _cache_expiry, t is datetime.now(), resp is what the network gives  *)
(* if the method sends its request.                                        *)

\* a request: its path, the symbol in the path, the apiKey parameter
Endpoint(path, sym) == [path |-> path, sym |-> sym, apiKey |-> ""]

\* PolygonAPI.test_connection
test_connection(k, resp) ==
    IF k = ""
    THEN [ret |-> [py |-> "tuple", ok |-> FALSE, msg |-> "No API key configured"],
          reqs |-> <<>>]
    ELSE LET rq == make_request(k, Endpoint("/v3/reference/tickers", ""), resp)
             result == rq.value
             chk == OkCheck(result)
         IN  [ret |-> IF chk = "raise" THEN Raise("AttributeError")
                      ELSE IF chk = "ok"
                      THEN [py |-> "tuple", ok |-> TRUE, msg |-> "Connected successfully"]
                      ELSE IF Truthy(result) /\ "error" \in DOMAIN result
                      THEN [py |-> "tuple", ok |-> FALSE, msg |-> result.error]
                      ELSE [py |-> "tuple", ok |-> FALSE, msg |-> "Connection failed"],
              reqs |-> rq.reqs]

\* get_ticker_details that stores the results of any answer, whatever its
\* status
get_ticker_details_any_status(k, c, e, t, ticker, resp) ==
    LET cache_key == <<"ticker_details", ticker>>
        cached == get_cached(c, e, t, cache_key)
    IN  IF Truthy(cached) THEN Out(cached, c, e, <<>>)
        ELSE LET rq == make_request(k, Endpoint("/v3/reference/tickers/", Upper(ticker)), resp)
                 chk == OkCheck(rq.value)
             IN  IF chk = "raise" THEN Out(Raise("AttributeError"), c, e, rq.reqs)
                 ELSE IF Truthy(rq.value)
                 THEN LET data == DictGet(rq.value, "results", EmptyDict)
                          st == set_cached(c, e, t, cache_key, data, TICKER_DETAILS_TTL)
                      IN  Out(data, st.cache, st.expiry, rq.reqs)
                 ELSE Out(None, c, e, rq.reqs)

\* PolygonAPI.get_ticker_details
get_ticker_details(k, c, e, t, ticker, resp) ==
    LET cache_key == <<"ticker_details", ticker>>
        cached == get_cached(c, e, t, cache_key)
    IN  IF Truthy(cached) THEN Out(cached, c, e, <<>>)
        ELSE LET rq == make_request(k, Endpoint("/v3/reference/tickers/", Upper(ticker)), resp)
                 chk == OkCheck(rq.value)
             IN  IF chk = "raise" THEN Out(Raise("AttributeError"), c, e, rq.reqs)
                 ELSE IF chk = "ok"
                 THEN LET data == DictGet(rq.value, "results", EmptyDict)
                          st == set_cached(c, e, t, cache_key, data, TICKER_DETAILS_TTL)
                      IN  Out(data, st.cache, st.expiry, rq.reqs)
                 ELSE Out(None, c, e, rq.reqs)

\* search_tickers that sends its request again when the first gave nothing
search_tickers_retrying(k, tr, query, resp) ==
    IF ~has_feature(tr, "tickerSearch") THEN [ret |-> EmptyList, reqs |-> <<>>]
    ELSE LET rq == make_request(k, Endpoint("/v3/reference/tickers?search", query), resp)
             chk == OkCheck(rq.value)
         IN  [ret |-> IF chk = "raise" THEN Raise("AttributeError")
                      ELSE IF chk = "ok" THEN DictGet(rq.value, "results", EmptyList)
                      ELSE EmptyList,
              reqs |-> IF chk = "ok" THEN rq.reqs ELSE rq.reqs \o rq.reqs]

\* PolygonAPI.search_tickers
search_tickers(k, tr, query, resp) ==
    IF ~has_feature(tr, "tickerSearch") THEN [ret |-> EmptyList, reqs |-> <<>>]
    ELSE LET rq == make_request(k, Endpoint("/v3/reference/tickers?search", query), resp)
             chk == OkCheck(rq.value)
         IN  [ret |-> IF chk = "raise" THEN Raise("AttributeError")
                      ELSE IF chk = "ok" THEN DictGet(rq.value, "results", EmptyList)
                      ELSE EmptyList,
              reqs |-> rq.reqs]

\* the record get_previous_close builds from results[0]
PrevCloseData(ticker, bar) ==
    [py |-> "dict",
     ticker    |-> Upper(ticker),
     close     |-> DictGet(bar, "c", None),
     open      |-> DictGet(bar, "o", None),
     high      |-> DictGet(bar, "h", None),
     low       |-> DictGet(bar, "l", None),
     volume    |-> DictGet(bar, "v", None),
     vwap      |-> DictGet(bar, "vw", None),
     timestamp |-> DictGet(bar, "t", None)]

\* get_previous_close whose cache key is made of the upper-cased ticker
get_previous_close_upper_key(k, tr, c, e, t, ticker, resp) ==
    IF ~has_feature(tr, "endOfDayPrices") THEN Out(None, c, e, <<>>)
    ELSE
    LET cache_key == <<"prev_close", Upper(ticker)>>
        cached == get_cached(c, e, t, cache_key)
    IN  IF Truthy(cached) THEN Out(cached, c, e, <<>>)
        ELSE LET rq == make_request(k, Endpoint("/v2/aggs/ticker/prev", Upper(ticker)), resp)
                 chk == OkCheck(rq.value)
                 results == DictGet(rq.value, "results", EmptyList)
             IN  IF chk = "raise" THEN Out(Raise("AttributeError"), c, e, rq.reqs)
                 ELSE IF chk = "ok" /\ Truthy(results)
                 THEN LET data == PrevCloseData(ticker, results.items[1])
                          st == set_cached(c, e, t, cache_key, data, PREV_CLOSE_TTL)
                      IN  Out(data, st.cache, st.expiry, rq.reqs)
                 ELSE Out(None, c, e, rq.reqs)

\* get_previous_close that also stores what it returns when there is nothing
get_previous_close_storing_none(k, tr, c, e, t, ticker, resp) ==
    IF ~has_feature(tr, "endOfDayPrices") THEN Out(None, c, e, <<>>)
    ELSE
    LET cache_key == <<"prev_close", ticker>>
        cached == get_cached(c, e, t, cache_key)
    IN  IF Truthy(cached) THEN Out(cached, c, e, <<>>)
        ELSE LET rq == make_request(k, Endpoint("/v2/aggs/ticker/prev", Upper(ticker)), resp)
                 chk == OkCheck(rq.value)
                 results == DictGet(rq.value, "results", EmptyList)
                 data == IF chk = "ok" /\ Truthy(results)
                         THEN PrevCloseData(ticker, results.items[1]) ELSE None
                 st == set_cached(c, e, t, cache_key, data, PREV_CLOSE_TTL)
             IN  IF chk = "raise" THEN Out(Raise("AttributeError"), c, e, rq.reqs)
                 ELSE Out(data, st.cache, st.expiry, rq.reqs)

\* PolygonAPI.get_previous_close
get_previous_close(k, tr, c, e, t, ticker, resp) ==
    IF ~has_feature(tr, "endOfDayPrices") THEN Out(None, c, e, <<>>)
    ELSE
    LET cache_key == <<"prev_close", ticker>>
        cached == get_cached(c, e, t, cache_key)
    IN  IF Truthy(cached) THEN Out(cached, c, e, <<>>)
        ELSE LET rq == make_request(k, Endpoint("/v2/aggs/ticker/prev", Upper(ticker)), resp)
                 chk == OkCheck(rq.value)
                 results == DictGet(rq.value, "results", EmptyList)
             IN  IF chk = "raise" THEN Out(Raise("AttributeError"), c, e, rq.reqs)
                 ELSE IF chk = "ok" /\ Truthy(results)
                 THEN LET data == PrevCloseData(ticker, results.items[1])
                          st == set_cached(c, e, t, cache_key, data, PREV_CLOSE_TTL)
                      IN  Out(data, st.cache, st.expiry, rq.reqs)
                 ELSE Out(None, c, e, rq.reqs)

\* PolygonAPI.get_current_price: resp1 answers the last-trade request,
\* resp2 the previous-close request
get_current_price(k, tr, c, e, t, ticker, resp1, resp2) ==
    LET realtime == has_feature(tr, "realtimeQuotes")
        rq == IF realtime
              THEN make_request(k, Endpoint("/v2/last/trade", Upper(ticker)), resp1)
              ELSE [value |-> None, reqs |-> <<>>]
        chk == OkCheck(rq.value)
    IN  IF realtime /\ chk = "raise" THEN Out(Raise("AttributeError"), c, e, rq.reqs)
        ELSE IF realtime /\ chk = "ok"
        THEN Out(DictGet(DictGet(rq.value, "results", EmptyDict), "p", None), c, e, rq.reqs)
        ELSE LET pc == get_previous_close(k, tr, c, e, t, ticker, resp2)
                 prev == pc.ret
             IN  IF prev.py = "raise" THEN Out(prev, pc.cache, pc.expiry, rq.reqs \o pc.reqs)
                 ELSE IF Truthy(prev)
                 THEN Out(DictGet(prev, "close", None), pc.cache, pc.expiry, rq.reqs \o pc.reqs)
                 ELSE Out(None, pc.cache, pc.expiry, rq.reqs \o pc.reqs)

\* PolygonAPI.get_aggregate_bars (timespan "day"; the date range is the
\* `limit` days up to today)
get_aggregate_bars(k, tr, ticker, limit, resp) ==
    IF ~has_feature(tr, "endOfDayPrices") THEN [ret |-> EmptyList, reqs |-> <<>>]
    ELSE LET rq == make_request(k, [path |-> "/v2/aggs/ticker/range/1/day",
                                    sym |-> Upper(ticker), apiKey |-> "",
                                    limit |-> limit], resp)
             chk == OkCheck(rq.value)
         IN  [ret |-> IF chk = "raise" THEN Raise("AttributeError")
                      ELSE IF chk = "ok" THEN DictGet(rq.value, "results", EmptyList)
                      ELSE EmptyList,
              reqs |-> rq.reqs]

\* get_options_chain without its entitlement check
get_options_chain_ungated(k, tr, ticker, resp) ==
    LET rq == make_request(k, Endpoint("/v3/snapshot/options", Upper(ticker)), resp)
    IN  [ret |-> IF OkCheck(rq.value) = "ok" THEN DictGet(rq.value, "results", EmptyList)
                 ELSE EmptyList,
         reqs |-> rq.reqs]

\* PolygonAPI.get_options_chain
get_options_chain(k, tr, ticker, resp) ==
    IF ~has_feature(tr, "optionsChain") THEN [ret |-> EmptyList, reqs |-> <<>>]
    ELSE LET rq == make_request(k, Endpoint("/v3/snapshot/options", Upper(ticker)), resp)
             chk == OkCheck(rq.value)
         IN  [ret |-> IF chk = "raise" THEN Raise("AttributeError")
                      ELSE IF chk = "ok" THEN DictGet(rq.value, "results", EmptyList)
                      ELSE EmptyList,
              reqs |-> rq.reqs]

\* PolygonAPI.get_option_contract (the options ticker is used as passed)
get_option_contract(k, tr, options_ticker, resp) ==
    IF ~has_feature(tr, "optionsChain") THEN [ret |-> None, reqs |-> <<>>]
    ELSE LET rq == make_request(k, Endpoint("/v3/snapshot/options", options_ticker), resp)
             chk == OkCheck(rq.value)
             results == DictGet(rq.value, "results", EmptyList)
         IN  [ret |-> IF chk = "raise" THEN Raise("AttributeError")
                      ELSE IF chk = "ok" /\ Truthy(results) THEN results.items[1]
                      ELSE None,
              reqs |-> rq.reqs]

\* round(a / b, 0) for b > 0, ties to even: Python's round() on the exact
\* quotient
RoundDiv(a, b) ==
    LET q == a \div b
        r == a - q * b
    IN  IF 2 * r < b THEN q
        ELSE IF 2 * r > b THEN q + 1
        ELSE IF q % 2 = 0 THEN q ELSE q + 1

\* the indices of get_index_performance, in the order of the dict
IndexSymbols == <<"SPY", "QQQ", "IWM", "DIA">>
IndexNames == <<"S&P 500", "Nasdaq", "Russell 2000", "Dow Jones">>

\* round(((end_price - start_price) / start_price) * 100, 2), in hundredths
\* of a percent
YtdReturn(start_price, end_price) ==
    RoundDiv((end_price - start_price) * 10000, start_price)

\* the iteration with one bar taken as enough
IndexIterationOneBar(performance, i, bars) ==
    IF Truthy(bars) /\ Len(bars.items) >= 1
    THEN LET start_price == DictGet(bars.items[1], "c", Num(0)).v
             end_price == DictGet(bars.items[Len(bars.items)], "c", Num(0)).v
         IN  IF start_price > 0
             THEN DictSet(performance, IndexNames[i],
                          [py |-> "dict",
                           symbol |-> IndexSymbols[i],
                           return |-> Num(YtdReturn(start_price, end_price)),
                           current_price |-> Num(end_price)])
             ELSE performance
    ELSE performance

\* one iteration of the loop of get_index_performance on the bars fetched
\* for the i-th index: the performance dict after it
IndexIteration(performance, i, bars) ==
    IF Truthy(bars) /\ Len(bars.items) >= 2
    THEN LET start_price == DictGet(bars.items[1], "c", Num(0)).v
             end_price == DictGet(bars.items[Len(bars.items)], "c", Num(0)).v
         IN  IF start_price > 0
             THEN DictSet(performance, IndexNames[i],
                          [py |-> "dict",
                           symbol |-> IndexSymbols[i],
                           return |-> Num(YtdReturn(start_price, end_price)),
                           current_price |-> Num(end_price)])
             ELSE performance
    ELSE performance

----------------------------------------------------------------------------
(* The client as a state machine: one action per public method *)

Event(op, arg, ret, reqs) == [op |-> op, arg |-> arg, ret |-> ret, reqs |-> reqs]

\* no get_index_performance call is in progress
Idle == [i |-> 0]

\* PositionsTable.__init__: no data, a table without rows, nothing selected
NoTable ==
    /\ positions_data = << >>
    /\ table = << >>
    /\ selected = -1

\* the window before its first refresh: no widget has been given data
NotShown ==
    [api |-> 0, premium |-> None, portfolio |-> None, positions |-> None,
     chart |-> None, income |-> None, performers |-> None, rankings |-> None,
     market |-> None]

\* a method that touches the cache: install what it left, note who stored
Apply(op, arg, o) ==
    /\ cache' = o.cache
    /\ cache_expiry' = o.expiry
    /\ stored_by' = [x \in DOMAIN o.cache |->
                        IF x \in DOMAIN cache /\ o.cache[x] = cache[x]
                           /\ x \in DOMAIN cache_expiry /\ o.expiry[x] = cache_expiry[x]
                        THEN stored_by[x] ELSE instance]
    /\ last' = Event(op, arg, o.ret, o.reqs)
    /\ UNCHANGED <<uiVars, settings, instance, api_key, tier, now, ticks, pending>>

\* a method that does not touch the cache
Report(op, arg, o) ==
    /\ last' = Event(op, arg, o.ret, o.reqs)
    /\ UNCHANGED <<uiVars, settings, clientVars, now, ticks, pending>>

\* Each action draws the network's answer from the responses of its
\* endpoint; answers that lead to the same outcome are one step.

\* test_connection takes no argument: its event notes the answer the network
\* gave to the request it sent ("" when it sent none)
TestConnection ==
    /\ instance # 0 /\ pending = Idle
    /\ \E resp \in Responses(ListPayloads) :
          LET o == test_connection(api_key, resp)
          IN  Report("test_connection", IF o.reqs = <<>> THEN "" ELSE resp, o)

GetTickerDetails(ticker) ==
    /\ instance # 0 /\ pending = Idle
    /\ \E o \in {get_ticker_details(api_key, cache, cache_expiry, now, ticker, resp) :
                    resp \in Responses(DetailsPayloads)} :
          Apply("get_ticker_details", ticker, o)

SearchTickers(query) ==
    /\ instance # 0 /\ pending = Idle
    /\ \E o \in {search_tickers(api_key, tier, query, resp) :
                    resp \in Responses(ListPayloads)} :
          Report("search_tickers", query, o)

GetPreviousClose(ticker) ==
    /\ instance # 0 /\ pending = Idle
    /\ \E o \in {get_previous_close(api_key, tier, cache, cache_expiry, now, ticker, resp) :
                    resp \in Responses(PrevPayloads)} :
          Apply("get_previous_close", ticker, o)

GetCurrentPrice(ticker) ==
    /\ instance # 0 /\ pending = Idle
    /\ \E o \in {get_current_price(api_key, tier, cache, cache_expiry, now, ticker,
                                   resp1, resp2) :
                    resp1 \in Responses(TradePayloads), resp2 \in Responses(PrevPayloads)} :
          Apply("get_current_price", ticker, o)

GetOptionsChain(ticker) ==
    /\ instance # 0 /\ pending = Idle
    /\ \E o \in {get_options_chain(api_key, tier, ticker, resp) :
                    resp \in Responses(ListPayloads)} :
          Report("get_options_chain", ticker, o)

GetOptionContract(options_ticker) ==
    /\ instance # 0 /\ pending = Idle
    /\ \E o \in {get_option_contract(api_key, tier, options_ticker, resp) :
                    resp \in Responses(ListPayloads)} :
          Report("get_option_contract", options_ticker, o)

\* a direct call of _get_cached(cache_key)
GetCached(cache_key) ==
    /\ instance # 0 /\ pending = Idle
    /\ Report("_get_cached", cache_key,
              [ret |-> get_cached(cache, cache_expiry, now, cache_key), reqs |-> <<>>])

\* PolygonAPI.get_index_performance(days), entered: performance = {}
IndexBegin(days) ==
    /\ instance # 0 /\ pending = Idle
    /\ pending' = [i |-> 1, days |-> days, performance |-> EmptyDict,
                   bars |-> EmptyList, reqs |-> <<>>]
    /\ last' = Event("call", "", None, <<>>)
    /\ UNCHANGED <<uiVars, settings, clientVars, now, ticks>>

\* one iteration of its loop: fetch the bars of the i-th index and account
\* for them.  A fetch that raises ends the call.
IndexStep ==
    /\ pending # Idle /\ pending.i <= Len(IndexSymbols)
    /\ \E o \in {get_aggregate_bars(api_key, tier, IndexSymbols[pending.i], pending.days, resp) :
                    resp \in Responses(AggPayloads)} :
          IF o.ret.py = "raise"
          THEN /\ pending' = Idle
               /\ last' = Event("get_index_performance", pending.days, o.ret,
                                pending.reqs \o o.reqs)
          ELSE /\ pending' = [pending EXCEPT
                                !.i = @ + 1,
                                !.performance = IndexIteration(@, pending.i, o.ret),
                                !.bars = o.ret,
                                !.reqs = @ \o o.reqs]
               /\ UNCHANGED last
    /\ UNCHANGED <<uiVars, settings, clientVars, now, ticks>>

\* the loop is over: return performance
IndexReturn ==
    /\ pending # Idle /\ pending.i > Len(IndexSymbols)
    /\ pending' = Idle
    /\ last' = Event("get_index_performance", pending.days, pending.performance, pending.reqs)
    /\ UNCHANGED <<uiVars, settings, clientVars, now, ticks>>

GetAggregateBars(ticker, limit) ==
    /\ instance # 0 /\ pending = Idle
    /\ \E o \in {get_aggregate_bars(api_key, tier, ticker, limit, resp) :
                    resp \in Responses(AggPayloads)} :
          Report("get_aggregate_bars", ticker, o)

\* clock advances: one second, and one second short of each TTL
TickSteps == {1, PREV_CLOSE_TTL - 1, TICKER_DETAILS_TTL - 1}

\* time passes between calls
Tick ==
    /\ ticks < MaxTicks /\ pending = Idle
    /\ \E d \in TickSteps : now' = now + d
    /\ ticks' = ticks + 1
    /\ last' = Event("tick", "", None, <<>>)
    /\ UNCHANGED <<uiVars, settings, clientVars, pending>>

----------------------------------------------------------------------------
(* One client, PolygonAPI(api_key, tier), and the calls made on it *)

NoEvent == Event("init", "", None, <<>>)

\* PolygonAPI.__init__
InitClient(k, tr) ==
    /\ api_key = k
    /\ tier = tr
    /\ cache = << >>
    /\ cache_expiry = << >>
    /\ stored_by = << >>

Init ==
    /\ settings = << >>
    /\ instance = 1
    /\ \E k \in ApiKeys, tr \in Tiers : InitClient(k, tr)
    /\ now = 0
    /\ ticks = 0
    /\ db_rev = 0
    /\ dashboard = NotShown
    /\ NoTable
    /\ pending = Idle
    /\ last = NoEvent

\* every method but get_index_performance, at one instant
Next ==
    \/ TestConnection
    \/ \E ticker \in Tickers : GetTickerDetails(ticker)
    \/ \E query \in Tickers : SearchTickers(query)
    \/ \E ticker \in Tickers : GetPreviousClose(ticker)
    \/ \E ticker \in Tickers : GetCurrentPrice(ticker)
    \/ \E ticker \in TimedTickers : GetAggregateBars(ticker, DefaultLimit)
    \/ \E ticker \in Tickers : GetOptionsChain(ticker)
    \/ \E ticker \in Tickers : GetOptionContract(ticker)

Spec == Init /\ [][Next]_vars

\* the methods that read or write the cache, as time passes
NextTimed ==
    \/ \E ticker \in TimedTickers : GetTickerDetails(ticker)
    \/ \E ticker \in TimedTickers : GetPreviousClose(ticker)
    \/ \E ticker \in TimedTickers : GetCurrentPrice(ticker)
    \/ \E ticker \in TimedTickers : GetCached(<<"ticker_details", ticker>>)
    \/ \E ticker \in TimedTickers : GetCached(<<"prev_close", ticker>>)
    \/ Tick

SpecTimed == Init /\ [][NextTimed]_vars

\* a client built without an API key, every method, as time passes
InitNoKey ==
    /\ settings = << >>
    /\ instance = 1
    /\ \E tr \in Tiers : InitClient("", tr)
    /\ now = 0
    /\ ticks = 0
    /\ db_rev = 0
    /\ dashboard = NotShown
    /\ NoTable
    /\ pending = Idle
    /\ last = NoEvent

NextNoKey ==
    \/ Next
    \/ \E days \in IndexDays : IndexBegin(days)
    \/ IndexStep
    \/ IndexReturn
    \/ \E ticker \in Tickers : GetCached(<<"ticker_details", ticker>>)
    \/ \E ticker \in Tickers : GetCached(<<"prev_close", ticker>>)
    \/ Tick

SpecNoKey == InitNoKey /\ [][NextNoKey]_vars

\* get_index_performance alone
NextIndex ==
    \/ \E days \in IndexDays : IndexBegin(days)
    \/ IndexStep
    \/ IndexReturn

SpecIndex == Init /\ [][NextIndex]_vars

----------------------------------------------------------------------------
(* The process-wide client: get_polygon_api, refresh_polygon_api and the   *)
(* settings store they read                                                *)

\* db.get_setting(key): the stored string, None when there is none
get_setting(key) ==
    IF key \in DOMAIN settings THEN [py |-> "str", s |-> settings[key]] ELSE None

\* `db.get_setting(key) or default`
SettingOr(key, default) ==
    LET value == get_setting(key)
    IN  IF Truthy(value) THEN value.s ELSE default

\* db.set_setting(key, value)
SetSetting(key, value) ==
    /\ pending = Idle
    /\ settings' = DictSet(settings, key, value)
    /\ last' = Event("set_setting", key, None, <<>>)
    /\ UNCHANGED <<uiVars, clientVars, now, ticks, pending>>

\* _api_instance = PolygonAPI(api_key, tier), from the settings as they are
Construct ==
    /\ instance' = instance + 1
    /\ api_key' = SettingOr("polygon_api_key", "")
    /\ tier' = SettingOr("polygon_tier", "free")
    /\ cache' = << >>
    /\ cache_expiry' = << >>
    /\ stored_by' = << >>

\* refresh_polygon_api that hands the old cache maps to the new client
RefreshKeepingCache ==
    /\ instance # 0 /\ instance < MaxInstances /\ pending = Idle
    /\ instance' = instance + 1
    /\ api_key' = SettingOr("polygon_api_key", "")
    /\ tier' = SettingOr("polygon_tier", "free")
    /\ last' = Event("refresh_polygon_api", "", Num(instance'), <<>>)
    /\ UNCHANGED <<uiVars, settings, cache, cache_expiry, stored_by, now, ticks, pending>>

\* refresh_polygon_api()
RefreshPolygonApi ==
    /\ instance < MaxInstances /\ pending = Idle
    /\ Construct
    /\ last' = Event("refresh_polygon_api", "", Num(instance'), <<>>)
    /\ UNCHANGED <<uiVars, settings, now, ticks, pending>>

\* get_polygon_api that builds a client from the settings on every call
GetPolygonApiRebuilding ==
    /\ instance < MaxInstances /\ pending = Idle
    /\ Construct
    /\ last' = Event("get_polygon_api", "", Num(instance'), <<>>)
    /\ UNCHANGED <<uiVars, settings, now, ticks, pending>>

\* get_polygon_api()
GetPolygonApi ==
    /\ pending = Idle
    /\ IF instance = 0 THEN Construct ELSE UNCHANGED clientVars
    /\ last' = Event("get_polygon_api", "", Num(instance'), <<>>)
    /\ UNCHANGED <<uiVars, settings, now, ticks, pending>>

\* a fresh process: nothing persisted, _api_instance = None
InitSingleton ==
    /\ settings = << >>
    /\ instance = 0
    /\ InitClient("", "free")
    /\ now = 0
    /\ ticks = 0
    /\ db_rev = 0
    /\ dashboard = NotShown
    /\ NoTable
    /\ pending = Idle
    /\ last = NoEvent

NextSingleton ==
    \/ \E key \in DOMAIN SettingValues : \E value \in SettingValues[key] :
          SetSetting(key, value)
    \/ GetPolygonApi
    \/ RefreshPolygonApi
    \/ \E ticker \in TimedTickers : GetTickerDetails(ticker)
    \/ \E ticker \in TimedTickers : GetPreviousClose(ticker)
    \/ \E ticker \in TimedTickers : GetOptionsChain(ticker)

SpecSingleton == InitSingleton /\ [][NextSingleton]_vars

----------------------------------------------------------------------------
(* The settings page and the dashboard: SettingsPage._save_settings and    *)
(* MainWindow._refresh_data, which settings_changed, the refresh timer and *)
(* the window's construction call                                          *)

MaxRevs == 1

\* what the user may have typed into api_key_input, and the tier_combo items
KeyTexts == {"", "k1", " k2 "}
TierChoices == {"free", "starter", "advanced", "business"}

\* str.strip() on the texts of the model
Strip(text) == IF text = " k2 " THEN "k2" ELSE text

\* the `days` _refresh_data asks for
RefreshDays == 365

\* what the aggregates endpoint may answer during a refresh
RefreshResponses ==
    {Json(NonObjectBody),
     Json([py |-> "dict", status |-> "OK",
           results |-> List(<<Bar(40000), Bar(42000)>>)])}

\* the loop of get_index_performance from its i-th index on, resps[i] being
\* the answer to the i-th fetch
RECURSIVE IndexLoop(_, _, _, _, _, _, _)
IndexLoop(k, tr, days, resps, i, performance, reqs) ==
    IF i > Len(IndexSymbols) THEN [ret |-> performance, reqs |-> reqs]
    ELSE LET o == get_aggregate_bars(k, tr, IndexSymbols[i], days, resps[i])
         IN  IF o.ret.py = "raise" THEN [ret |-> o.ret, reqs |-> reqs \o o.reqs]
             ELSE IndexLoop(k, tr, days, resps, i + 1,
                            IndexIteration(performance, i, o.ret), reqs \o o.reqs)

\* PolygonAPI.get_index_performance(days), as one call
get_index_performance(k, tr, days, resps) ==
    IndexLoop(k, tr, days, resps, 1, EmptyDict, <<>>)

\* what the database gives for one of its queries at revision rev
DbRead(what, rev) == [py |-> "data", what |-> what, rev |-> rev]

\* what market_rankings.update_data(options_pct, market_data) leaves shown
Rankings(premium_data, market_data) ==
    [py |-> "rankings", options |-> premium_data, market |-> market_data]

\* every way get_index_performance(RefreshDays) can end on a client with
\* key k and tier tr
IndexOutcomes(k, tr) ==
    {get_index_performance(k, tr, RefreshDays, resps) :
        resps \in [DOMAIN IndexSymbols -> RefreshResponses]}

\* _refresh_data without its try/except around the market rankings
RefreshedWithoutTry(shown, rev, inst, idx) ==
    [ret  |-> IF idx.ret.py = "raise" THEN idx.ret ELSE None,
     dash |-> [api        |-> inst,
               premium    |-> DbRead("premium_summary", rev),
               portfolio  |-> DbRead("portfolio", rev),
               positions  |-> DbRead("all_positions", rev),
               chart      |-> DbRead("all_positions", rev),
               income     |-> DbRead("premium_summary", rev),
               performers |-> DbRead("top_performers", rev),
               rankings   |-> IF idx.ret.py = "raise" THEN shown.rankings
                              ELSE Rankings(DbRead("premium_summary", rev), idx.ret),
               market     |-> idx.ret],
     reqs |-> idx.reqs]

\* the body of _refresh_data once `api` is client inst, idx being how its
\* get_index_performance call ended: every widget is given the data of
\* revision rev, market rankings only if that call returned; the exception
\* is swallowed
Refreshed(shown, rev, inst, idx) ==
    [ret  |-> None,
     dash |-> [api        |-> inst,
               premium    |-> DbRead("premium_summary", rev),
               portfolio  |-> DbRead("portfolio", rev),
               positions  |-> DbRead("all_positions", rev),
               chart      |-> DbRead("all_positions", rev),
               income     |-> DbRead("premium_summary", rev),
               performers |-> DbRead("top_performers", rev),
               rankings   |-> IF idx.ret.py = "raise" THEN shown.rankings
                              ELSE Rankings(DbRead("premium_summary", rev), idx.ret),
               market     |-> idx.ret],
     reqs |-> idx.reqs]

\* MainWindow._refresh_data(), run by the timer, the menu or the constructor
RefreshData ==
    /\ pending = Idle
    /\ IF instance = 0 THEN Construct ELSE UNCHANGED clientVars
    /\ \E idx \in IndexOutcomes(api_key', tier') :
          LET o == Refreshed(dashboard, db_rev, instance', idx)
          IN  /\ dashboard' = o.dash
              /\ last' = Event("_refresh_data", "", o.ret, o.reqs)
    /\ UNCHANGED <<settings, db_rev, tableVars, now, ticks, pending>>

\* _save_settings that rebuilds the client before it writes the settings
SaveSettingsRefreshingFirst(text, choice) ==
    /\ instance < MaxInstances /\ pending = Idle
    /\ settings' = DictSet(DictSet(settings, "polygon_api_key", Strip(text)),
                           "polygon_tier", choice)
    /\ Construct
    /\ \E idx \in IndexOutcomes(api_key', tier') :
          LET o == Refreshed(dashboard, db_rev, instance', idx)
          IN  /\ dashboard' = o.dash
              /\ last' = Event("_save_settings", <<text, choice>>, o.ret, o.reqs)
    /\ UNCHANGED <<db_rev, tableVars, now, ticks, pending>>

\* SettingsPage._save_settings(): both settings written, refresh_polygon_api(),
\* then settings_changed, whose slot _refresh_data runs before emit returns
SaveSettings(text, choice) ==
    /\ instance < MaxInstances /\ pending = Idle
    /\ settings' = DictSet(DictSet(settings, "polygon_api_key", Strip(text)),
                           "polygon_tier", choice)
    /\ instance' = instance + 1
    /\ api_key' = SettingOr("polygon_api_key", "")'
    /\ tier' = SettingOr("polygon_tier", "free")'
    /\ cache' = << >>
    /\ cache_expiry' = << >>
    /\ stored_by' = << >>
    /\ \E idx \in IndexOutcomes(api_key', tier') :
          LET o == Refreshed(dashboard, db_rev, instance', idx)
          IN  /\ dashboard' = o.dash
              /\ last' = Event("_save_settings", <<text, choice>>, o.ret, o.reqs)
    /\ UNCHANGED <<db_rev, tableVars, now, ticks, pending>>

\* a trade is recorded: the data in the database changes
DataChanged ==
    /\ db_rev < MaxRevs /\ pending = Idle
    /\ db_rev' = db_rev + 1
    /\ last' = Event("trade", "", None, <<>>)
    /\ UNCHANGED <<settings, clientVars, dashboard, tableVars, now, ticks, pending>>

NextDashboard ==
    \/ \E text \in KeyTexts, choice \in TierChoices : SaveSettings(text, choice)
    \/ RefreshData
    \/ DataChanged

SpecDashboard == InitSingleton /\ [][NextDashboard]_vars

----------------------------------------------------------------------------
(* The positions table: PositionsTable.update_data and                     *)
(* _on_selection_changed (src/src/components/positions_table.py).  Amounts *)
(* are in cents.  In the dashboard above the table is only "the data it    *)
(* was given"; here are its rows and its selection.                        *)

MaxPositions == 3

\* position records as the database gives them; a key may be missing
PositionRecords ==
    {[py |-> "dict", ticker |-> "AAPL", cc_premium |-> Num(10000),
      csp_premium |-> Num(5000), total_premium |-> Num(15000)],
     [py |-> "dict", ticker |-> "MSFT", cc_premium |-> Num(0),
      csp_premium |-> Num(20000), total_premium |-> Num(20000)],
     [py |-> "dict", ticker |-> "F", total_premium |-> Num(30000)]}

PositionLists == UNION {[1..n -> PositionRecords] : n \in 0..MaxPositions}

\* a QTableWidgetItem showing a text, and one showing format_currency(n)
Text(s) == [py |-> "str", s |-> s]
format_currency(n) == [py |-> "currency", amount |-> n]

\* the four items update_data sets in the row of one position
PositionRow(pos) ==
    LET cc == DictGet(pos, "cc_premium", Num(0)).v
        put == DictGet(pos, "csp_premium", Num(0)).v
        total == DictGet(pos, "total_premium", Num(0)).v
    IN  <<Text(DictGet(pos, "ticker", "")),
          IF cc > 0 THEN format_currency(cc) ELSE Text("-"),
          IF put > 0 THEN format_currency(put) ELSE Text("-"),
          format_currency(total)>>

\* the loop of update_data from position `row` on: the rows set so far and
\* the three running totals
RECURSIVE FillRows(_, _, _)
FillRows(positions, row, acc) ==
    IF row > Len(positions) THEN acc
    ELSE LET pos == positions[row]
         IN  FillRows(positions, row + 1,
                      [rows          |-> Append(acc.rows, PositionRow(pos)),
                       total_cc      |-> acc.total_cc + DictGet(pos, "cc_premium", Num(0)).v,
                       total_put     |-> acc.total_put + DictGet(pos, "csp_premium", Num(0)).v,
                       total_premium |-> acc.total_premium
                                           + DictGet(pos, "total_premium", Num(0)).v])

\* PositionsTable.update_data: the rows of the table after the call
update_data(positions) ==
    LET acc == FillRows(positions, 1,
                        [rows |-> << >>, total_cc |-> 0, total_put |-> 0,
                         total_premium |-> 0])
    IN  Append(acc.rows,
               <<Text("TOTAL"), format_currency(acc.total_cc),
                 format_currency(acc.total_put), format_currency(acc.total_premium)>>)

\* _on_selection_changed that passes on the position nearest to the row
on_selection_changed_nearest(data, rows) ==
    IF rows # << >> /\ data # << >>
    THEN IF rows[1] < Len(data) THEN data[rows[1] + 1] ELSE data[Len(data)]
    ELSE None

\* PositionsTable._on_selection_changed: what position_selected is emitted
\* with, None when it is not emitted; rows is selectedRows() as row indices
on_selection_changed(data, rows) ==
    IF rows # << >> /\ data # << >>
    THEN IF rows[1] < Len(data) THEN data[rows[1] + 1] ELSE None
    ELSE None

\* update_data(positions).  setRowCount drops the selection when its row is
\* no longer there, and the selection handler then runs with no row selected
UpdateData(positions) ==
    /\ pending = Idle
    /\ positions_data' = positions
    /\ table' = update_data(positions)
    /\ selected' = IF selected < Len(table') THEN selected ELSE -1
    /\ last' = Event("update_data", Len(positions),
                     IF selected' = selected THEN None
                     ELSE on_selection_changed(positions_data', << >>), << >>)
    /\ UNCHANGED <<settings, clientVars, db_rev, dashboard, now, ticks, pending>>

\* the user selects row `row` of the table
SelectRow(row) ==
    /\ pending = Idle
    /\ row \in 0..(Len(table) - 1) /\ row # selected
    /\ selected' = row
    /\ last' = Event("_on_selection_changed", row,
                     on_selection_changed(positions_data, <<row>>), << >>)
    /\ UNCHANGED <<settings, clientVars, db_rev, dashboard, positions_data, table,
                   now, ticks, pending>>

\* the user clears the selection
ClearSelection ==
    /\ pending = Idle
    /\ selected # -1
    /\ selected' = -1
    /\ last' = Event("_on_selection_changed", -1,
                     on_selection_changed(positions_data, << >>), << >>)
    /\ UNCHANGED <<settings, clientVars, db_rev, dashboard, positions_data, table,
                   now, ticks, pending>>

NextTable ==
    \/ \E positions \in PositionLists : UpdateData(positions)
    \/ \E row \in 0..MaxPositions : SelectRow(row)
    \/ ClearSelection

SpecTable == InitSingleton /\ [][NextTable]_vars

----------------------------------------------------------------------------
(* Properties *)

Paths(reqs) == {reqs[i].path : i \in DOMAIN reqs}
LastTradePath == "/v2/last/trade"
PrevClosePath == "/v2/aggs/ticker/prev"

\* C1: a client whose tier lacks optionsChain gets [] from get_options_chain
\* and None from get_option_contract with no request sent, and a client
\* whose tier lacks realtimeQuotes never sends a last-trade request from
\* get_current_price, whatever its key and whatever was called before.
C1_EntitlementGate ==
    /\ (last.op = "get_options_chain" /\ "optionsChain" \notin available_features(tier))
          => (last.ret = EmptyList /\ last.reqs = <<>>)
    /\ (last.op = "get_option_contract" /\ "optionsChain" \notin available_features(tier))
          => (last.ret = None /\ last.reqs = <<>>)
    /\ (last.op = "get_current_price" /\ "realtimeQuotes" \notin available_features(tier))
          => LastTradePath \notin Paths(last.reqs)

\* a free-tier client with a key and a filled cache was refused the chain
C1_Witness ==
    /\ last.op = "get_options_chain"
    /\ tier = "free"
    /\ api_key = "k1"
    /\ DOMAIN cache # {}

\* C2: no public method raises to its caller; every call ends by returning.
C2_NeverRaises == last.ret.py # "raise"

\* what each method returns when it has nothing to give
Sentinel(op) ==
    CASE op = "test_connection" ->
            [py |-> "tuple", ok |-> FALSE, msg |-> "No API key configured"]
      [] op \in {"search_tickers", "get_aggregate_bars", "get_options_chain"} -> EmptyList
      [] op = "get_index_performance" -> EmptyDict
      [] OTHER -> None

\* C3: on a client whose API key is empty every call sends no request and
\* returns its empty sentinel (test_connection: False with "No API key
\* configured"), and nothing is ever cached, whatever was called before.
C3_NoKeyNoRequest ==
    api_key = "" =>
        /\ last.reqs = <<>>
        /\ last.ret = Sentinel(last.op)
        /\ pending # Idle => pending.reqs = <<>>
        /\ cache = << >>
        /\ cache_expiry = << >>

\* a keyless client answered get_index_performance after other calls and
\* some time
C3_Witness ==
    /\ api_key = ""
    /\ last.op = "get_index_performance"
    /\ last.ret = EmptyDict
    /\ now > 0

\* C4: _get_cached returns the stored value exactly when the key is stored
\* and now is strictly before its expiry, None otherwise, and never changes
\* the cache map or the expiry map.
C4_CachedLookup ==
    /\ [](last.op = "_get_cached" =>
            last.ret = IF last.arg \in DOMAIN cache /\ now < cache_expiry[last.arg]
                       THEN cache[last.arg] ELSE None)
    /\ [][last'.op = "_get_cached" => UNCHANGED <<cache, cache_expiry>>]_vars

\* a lookup at the expiry instant found the entry in the map and gave None
C4_Witness ==
    /\ last.op = "_get_cached"
    /\ last.arg \in DOMAIN cache
    /\ now = cache_expiry[last.arg]
    /\ last.ret = None

\* C5: with realtimeQuotes, get_current_price returns None only after the
\* previous-close path was tried too: with a key, a None result means a
\* previous-close request was sent.
C5_FallsBackWheneverNoPrice ==
    (/\ last.op = "get_current_price"
     /\ "realtimeQuotes" \in available_features(tier)
     /\ api_key # ""
     /\ last.ret = None)
        => PrevClosePath \in Paths(last.reqs)

\* C6: without realtimeQuotes, get_current_price sends no last-trade request
\* and does exactly what get_previous_close does on the same state, returning
\* the close field of its record, or its None.
C6_NoRealtimeIsPreviousClose ==
    [][(last'.op = "get_current_price" /\ "realtimeQuotes" \notin available_features(tier))
        => /\ LastTradePath \notin Paths(last'.reqs)
           /\ \E resp \in Responses(PrevPayloads) :
                LET pc == get_previous_close(api_key, tier, cache, cache_expiry, now,
                                             last'.arg, resp)
                IN  /\ last'.reqs = pc.reqs
                    /\ cache' = pc.cache
                    /\ cache_expiry' = pc.expiry
                    /\ last'.ret = IF pc.ret.py = "dict" THEN pc.ret.close ELSE pc.ret]_vars

\* a starter client got 101.50 from the previous close, by one request
C6_Witness ==
    /\ last.op = "get_current_price"
    /\ tier = "starter"
    /\ last.ret = Num(10150)
    /\ Paths(last.reqs) = {PrevClosePath}

\* C10: a get_ticker_details or get_previous_close call that finds an entry
\* stored for its ticker and not yet expired returns that entry's value and
\* sends no request.
C10_CacheHitNoRequest ==
    [][\A op \in {"get_ticker_details", "get_previous_close"} :
         LET key == <<IF op = "get_ticker_details" THEN "ticker_details" ELSE "prev_close",
                      last'.arg>>
         IN  (last'.op = op /\ key \in DOMAIN cache /\ now < cache_expiry[key])
                => (last'.ret = cache[key] /\ last'.reqs = <<>>)]_vars

\* the bars fetched for the index just handled, and its place in the loop
Handled == pending.i - 1
FetchedBars == pending.bars.items
StartClose == FetchedBars[1].c.v
EndClose == FetchedBars[Len(FetchedBars)].c.v

\* the fetch just made gave two bars or more, the first with a non-zero close
Usable == Len(FetchedBars) >= 2 /\ StartClose # 0

PersistedKey ==
    IF "polygon_api_key" \in DOMAIN settings THEN settings.polygon_api_key ELSE ""
PersistedTier ==
    IF "polygon_tier" \in DOMAIN settings /\ settings.polygon_tier # ""
    THEN settings.polygon_tier ELSE "free"

\* C7: refresh_polygon_api leaves a new client whose api_key and tier are
\* the persisted ones and whose cache is empty; every entry of the current
\* client's cache was stored by a call on that client, its requests carry
\* its key and its tier gates them.
C7_CacheIsolation ==
    /\ [][last'.op = "refresh_polygon_api" =>
            /\ instance' # instance
            /\ api_key' = PersistedKey
            /\ tier' = PersistedTier
            /\ cache' = << >>
            /\ cache_expiry' = << >>]_vars
    /\ [](/\ \A x \in DOMAIN cache : stored_by[x] = instance
          /\ \A n \in DOMAIN last.reqs : last.reqs[n].apiKey = api_key
          /\ (last.op = "get_options_chain" /\ "optionsChain" \notin available_features(tier))
                => last.reqs = <<>>)

\* after a refresh under a new key, the new client has fetched and cached a
\* value by a request that carries the new key
C7_Witness ==
    /\ instance = 2
    /\ api_key = "k2"
    /\ last.op = "get_ticker_details"
    /\ Len(last.reqs) = 1
    /\ DOMAIN cache # {}

\* C8: get_polygon_api builds a client from the persisted settings only when
\* there is none; otherwise it returns the one there is, its key, tier and
\* cache untouched, and writing the settings never changes the client: only
\* refresh_polygon_api replaces it.
C8_Singleton ==
    [][/\ (last'.op = "get_polygon_api" /\ instance # 0) => UNCHANGED clientVars
       /\ (last'.op = "get_polygon_api" /\ instance = 0) =>
             /\ api_key' = PersistedKey
             /\ tier' = PersistedTier
             /\ cache' = << >>
       /\ last'.op = "set_setting" => UNCHANGED clientVars
       /\ instance' # instance =>
             \/ last'.op = "refresh_polygon_api"
             \/ last'.op = "get_polygon_api" /\ instance = 0]_vars

\* get_polygon_api gave the client built under k1, cache and all, while the
\* settings already say k2 and another tier
C8_Witness ==
    /\ last.op = "get_polygon_api"
    /\ instance = 1
    /\ api_key = "k1"
    /\ PersistedKey = "k2"
    /\ tier # PersistedTier
    /\ DOMAIN cache # {}

\* a (flag, message) pair as test_connection returns it
Status(ok, msg) == [py |-> "tuple", ok |-> ok, msg |-> msg]

\* the body of an answer is a JSON object that has the field
HasField(resp, field) ==
    resp.kind = "json" /\ resp.body.py = "dict" /\ field \in DOMAIN resp.body

ReportsOk(resp) == HasField(resp, "status") /\ resp.body.status = "OK"

\* C11: test_connection with an empty key returns (False, "No API key
\* configured") and sends nothing; with a key it sends one request and
\* returns (True, ...) exactly when the answer is there and reports status
\* OK, (False, m) with the provider's error message m when the answer
\* carries one, and (False, "Connection failed") in every other case.
C11_TestConnectionOutcomes ==
    last.op = "test_connection" =>
        IF api_key = ""
        THEN last.ret = Status(FALSE, "No API key configured") /\ last.reqs = <<>>
        ELSE /\ Len(last.reqs) = 1
             /\ last.ret.py = "tuple"
             /\ last.ret.ok <=> ReportsOk(last.arg)
             /\ (~ReportsOk(last.arg) /\ HasField(last.arg, "error"))
                    => last.ret = Status(FALSE, last.arg.body.error)
             /\ (~ReportsOk(last.arg) /\ ~HasField(last.arg, "error"))
                    => last.ret = Status(FALSE, "Connection failed")

\* the cache key of each cacheable method, and the answers its endpoint gives
CacheKey(op, ticker) ==
    <<IF op = "get_ticker_details" THEN "ticker_details" ELSE "prev_close", ticker>>
Answers(op) ==
    Responses(IF op = "get_ticker_details" THEN DetailsPayloads ELSE PrevPayloads)

\* what the method does in the state as it is when the network answers resp
Outcome(op, ticker, resp) ==
    IF op = "get_ticker_details"
    THEN get_ticker_details(api_key, cache, cache_expiry, now, ticker, resp)
    ELSE get_previous_close(api_key, tier, cache, cache_expiry, now, ticker, resp)

\* no answer (a transport failure or a null body), or an answer whose status
\* is not OK
Absent(resp) == resp.kind = "exc" \/ resp.body = None
NonSuccess(resp) == resp.kind = "json" /\ resp.body.py = "dict" /\ ~ReportsOk(resp)
\* status OK with no bar in results
EmptyResults(resp) ==
    /\ ReportsOk(resp)
    /\ "results" \in DOMAIN resp.body => resp.body.results = EmptyList

FailedAnswer(op, resp) ==
    \/ Absent(resp)
    \/ NonSuccess(resp)
    \/ op = "get_previous_close" /\ EmptyResults(resp)

\* C12: a get_ticker_details or get_previous_close call whose request gets
\* no answer, an answer without success status or (previous close) a success
\* with no results returns None and leaves the cache map and the expiry map
\* as they were; the maps change only in a call that returns the value it
\* stored under its own key.
C12_FailureLeavesCache ==
    [][\A op \in {"get_ticker_details", "get_previous_close"} :
         (last'.op = op) =>
            /\ last'.reqs # <<>> =>
                  \A resp \in Answers(op) :
                     FailedAnswer(op, resp) =>
                        LET o == Outcome(op, last'.arg, resp)
                        IN  o.ret = None /\ o.cache = cache /\ o.expiry = cache_expiry
            /\ last'.ret = None => UNCHANGED <<cache, cache_expiry>>
            /\ (cache' # cache \/ cache_expiry' # cache_expiry) =>
                  /\ Len(last'.reqs) = 1
                  /\ last'.ret \notin {None, Raise("AttributeError")}
                  /\ cache' = DictSet(cache, CacheKey(op, last'.arg), last'.ret)
                  /\ DOMAIN cache_expiry' = DOMAIN cache']_vars

\* a previous-close call on an expired entry sent its request, got nothing
\* and returned None; the expired entry is still there
C12_Witness ==
    /\ last.op = "get_previous_close"
    /\ Len(last.reqs) = 1
    /\ last.ret = None
    /\ CacheKey(last.op, last.arg) \in DOMAIN cache
    /\ now >= cache_expiry[CacheKey(last.op, last.arg)]

\* the tiers directly above a tier: free -> starter -> business and
\* free -> advanced -> business
TiersAbove(tr) ==
    CASE tr = "free" -> {"starter", "advanced"}
      [] tr \in {"starter", "advanced"} -> {"business"}
      [] OTHER -> {}

Capabilities == UNION {TIER_FEATURES[tr] : tr \in DOMAIN TIER_FEATURES}
BaseCapabilities == {"endOfDayPrices", "tickerSearch"}

C14_UnknownTierIsFree ==
    /\ [](tier \notin DOMAIN TIER_FEATURES =>
            /\ available_features(tier) = {"endOfDayPrices", "tickerSearch"}
            /\ \A feature \in Capabilities :
                  has_feature(tier, feature) <=> has_feature("free", feature)
            /\ last.op = "get_options_chain" => (last.ret = EmptyList /\ last.reqs = <<>>)
            /\ last.op = "get_option_contract" => (last.ret = None /\ last.reqs = <<>>)
            /\ last.op = "get_current_price" => LastTradePath \notin Paths(last.reqs)
            /\ (last.op \in {"search_tickers", "get_aggregate_bars"} /\ api_key # "")
                  => Len(last.reqs) = 1)
    /\ [][(tier \notin DOMAIN TIER_FEATURES
            /\ last'.op \in {"get_previous_close", "get_current_price"}) =>
              \E resp \in Responses(PrevPayloads) :
                 LET pc == get_previous_close(api_key, "free", cache, cache_expiry, now,
                                              last'.arg, resp)
                 IN  /\ last'.reqs = pc.reqs
                     /\ cache' = pc.cache
                     /\ cache_expiry' = pc.expiry
                     /\ last'.ret = IF last'.op = "get_current_price" /\ pc.ret.py = "dict"
                                    THEN pc.ret.close ELSE pc.ret]_vars

\* a client of tier "platinum" got 101.50 from get_current_price by one
\* previous-close request
C14_Witness ==
    /\ tier = "platinum"
    /\ last.op = "get_current_price"
    /\ last.ret = Num(10150)
    /\ Paths(last.reqs) = {PrevClosePath}

\* the methods that never cache, the capability each needs and the path of
\* its endpoint
LiveOps ==
    {"search_tickers", "get_aggregate_bars", "get_options_chain", "get_option_contract"}
Needs(op) ==
    CASE op = "search_tickers" -> "tickerSearch"
      [] op = "get_aggregate_bars" -> "endOfDayPrices"
      [] op = "get_current_price" -> "realtimeQuotes"
      [] OTHER -> "optionsChain"
PathOf(op) ==
    CASE op = "search_tickers" -> "/v3/reference/tickers?search"
      [] op = "get_aggregate_bars" -> "/v2/aggs/ticker/range/1/day"
      [] op = "get_current_price" -> LastTradePath
      [] OTHER -> "/v3/snapshot/options"

CachedValues == {cache[x] : x \in DOMAIN cache}

\* C15: search_tickers, get_aggregate_bars, get_options_chain and
\* get_option_contract, called on a client that has a key and the capability,
\* send exactly one request, to their own endpoint, whatever the cache holds
\* and whatever was called just before, return nothing out of the cache and
\* leave the cache map and the expiry map unchanged; get_current_price on
\* such a client always sends exactly one last-trade request, first, and a
\* call that sent nothing else leaves both maps unchanged.
C15_AlwaysLive ==
    [][/\ \A op \in LiveOps :
            (last'.op = op /\ api_key # "" /\ has_feature(tier, Needs(op))) =>
               /\ Len(last'.reqs) = 1
               /\ last'.reqs[1].path = PathOf(op)
               /\ last'.reqs[1].apiKey = api_key
               /\ last'.ret \notin CachedValues
               /\ UNCHANGED <<cache, cache_expiry>>
       /\ \A op \in LiveOps : last'.op = op => UNCHANGED <<cache, cache_expiry>>
       /\ (last'.op = "get_current_price" /\ api_key # ""
              /\ has_feature(tier, Needs("get_current_price"))) =>
               /\ Len(last'.reqs) >= 1
               /\ last'.reqs[1].path = LastTradePath
               /\ \A n \in DOMAIN last'.reqs : n > 1 => last'.reqs[n].path # LastTradePath
               /\ Len(last'.reqs) = 1 => UNCHANGED <<cache, cache_expiry>>]_vars

\* a search for a ticker whose details and previous close are in the cache
\* went to the network and came back with results
C15_Witness ==
    /\ last.op = "search_tickers"
    /\ Len(last.reqs) = 1
    /\ Truthy(last.ret)
    /\ <<"ticker_details", last.arg>> \in DOMAIN cache
    /\ <<"prev_close", last.arg>> \in DOMAIN cache

\* C16: Save Settings leaves the stripped key and the chosen tier in the
\* settings store and a new client built from exactly these; the dashboard
\* refresh that settings_changed runs uses that new client, never the one
\* there was before the save: its requests carry the saved key.
C16_SavedSettingsApplied ==
    /\ [][last'.op = "_save_settings" =>
            LET text == last'.arg[1]
                choice == last'.arg[2]
            IN  /\ settings'.polygon_api_key = Strip(text)
                /\ settings'.polygon_tier = choice
                /\ instance' # instance
                /\ api_key' = Strip(text)
                /\ tier' = choice
                /\ cache' = << >>
                /\ dashboard'.api = instance'
                /\ dashboard'.api # instance
                /\ \A n \in DOMAIN last'.reqs : last'.reqs[n].apiKey = Strip(text)]_vars
    /\ [](dashboard.api # 0 => dashboard.api = instance)

\* " k2 " and advanced were saved over an earlier client; the refresh that
\* followed fetched all four indices with key k2 and showed them
C16_Witness ==
    /\ last.op = "_save_settings"
    /\ last.arg = <<" k2 ", "advanced">>
    /\ instance >= 2
    /\ api_key = "k2" /\ tier = "advanced"
    /\ Len(last.reqs) = 4
    /\ dashboard.api = instance
    /\ dashboard.rankings # None

\* the time each cacheable method keeps its entries
TtlOf(op) == IF op = "get_ticker_details" THEN TICKER_DETAILS_TTL ELSE PREV_CLOSE_TTL
CachePathOf(op) ==
    IF op = "get_ticker_details" THEN "/v3/reference/tickers/" ELSE PrevClosePath

\* C17: a get_ticker_details or get_previous_close call that finds the entry
\* of its key expired sends exactly one request, to its endpoint; if it
\* returns a value, the entry now holds that value and expires at
\* now + ttl (86400 s, 3600 s), so that a lookup from now until one second
\* before that instant gives the new value, and none at that instant.
C17_ExpiredEntryRefreshed ==
    [][\A op \in {"get_ticker_details", "get_previous_close"} :
         LET key == CacheKey(op, last'.arg)
         IN  (last'.op = op /\ key \in DOMAIN cache /\ now >= cache_expiry[key]) =>
                /\ Len(last'.reqs) = 1
                /\ last'.reqs[1].path = CachePathOf(op)
                /\ last'.reqs[1].sym = Upper(last'.arg)
                /\ last'.ret \notin {None, Raise("AttributeError")} =>
                      /\ cache'[key] = last'.ret
                      /\ cache_expiry'[key] = now + TtlOf(op)
                      /\ \A t \in {now, now + 1, now + TtlOf(op) - 1} :
                            get_cached(cache', cache_expiry', t, key) = last'.ret
                      /\ get_cached(cache', cache_expiry', now + TtlOf(op), key) = None]_vars

\* an hour after the first previous close was stored, a call refreshed the
\* entry by one request; it now expires an hour from now
C17_Witness ==
    /\ last.op = "get_previous_close"
    /\ now = PREV_CLOSE_TTL
    /\ Len(last.reqs) = 1
    /\ last.ret.py = "dict"
    /\ cache[CacheKey(last.op, last.arg)] = last.ret
    /\ cache_expiry[CacheKey(last.op, last.arg)] = now + PREV_CLOSE_TTL
    /\ <<"ticker_details", last.arg>> \in DOMAIN cache
    /\ cache_expiry[<<"ticker_details", last.arg>>] = TICKER_DETAILS_TTL

\* C18: no operation on a client removes a cache key: every key of the cache
\* map and of the expiry map is still there after each step on the same
\* instance, expired or not, and an entry stays exactly as it is unless a
\* call that sent a request for that key stores over it.
C18_KeysOnlyGrow ==
    [][instance' = instance =>
         /\ DOMAIN cache \subseteq DOMAIN cache'
         /\ DOMAIN cache_expiry \subseteq DOMAIN cache_expiry'
         /\ \A x \in DOMAIN cache :
               (cache'[x] # cache[x] \/ cache_expiry'[x] # cache_expiry[x]) =>
                  /\ last'.reqs # <<>>
                  /\ x[2] = last'.arg
                  /\ cache_expiry'[x] > now]_vars

\* long after the details entry expired, a call for it failed: the entry
\* and the previous-close entry, expired too, are both still in the maps
C18_Witness ==
    /\ last.op = "get_ticker_details"
    /\ Len(last.reqs) = 1
    /\ last.ret = None
    /\ <<"ticker_details", last.arg>> \in DOMAIN cache
    /\ now > cache_expiry[<<"ticker_details", last.arg>>]
    /\ <<"prev_close", last.arg>> \in DOMAIN cache
    /\ now > cache_expiry[<<"prev_close", last.arg>>]

\* the widgets _refresh_data fills before it asks for the market data, with
\* the database query each shows
EarlierWidgets ==
    [premium    |-> "premium_summary",
     portfolio  |-> "portfolio",
     positions  |-> "all_positions",
     chart      |-> "all_positions",
     income     |-> "premium_summary",
     performers |-> "top_performers"]

\* C19: every run of _refresh_data returns normally; each widget it fills
\* before the market data shows the current data; if get_index_performance
\* raised, the market-rankings card shows what it showed before, otherwise
\* it shows the current premium data with the market data returned.
C19_RefreshAbsorbsMarketFailure ==
    [][last'.op \in {"_refresh_data", "_save_settings"} =>
         /\ last'.ret = None
         /\ \A w \in DOMAIN EarlierWidgets :
               dashboard'[w] = DbRead(EarlierWidgets[w], db_rev)
         /\ dashboard'.market.py = "raise" => dashboard'.rankings = dashboard.rankings
         /\ dashboard'.market.py # "raise" =>
               dashboard'.rankings =
                   Rankings(DbRead("premium_summary", db_rev), dashboard'.market)]_vars

\* the data changed after the rankings were shown; in the next refresh the
\* third index fetch raised: the rankings still show the old revision,
\* the premium card the new one
C19_Witness ==
    /\ last.op = "_refresh_data"
    /\ last.ret = None
    /\ dashboard.market.py = "raise"
    /\ Len(last.reqs) = 3
    /\ db_rev = 1
    /\ dashboard.premium = DbRead("premium_summary", 1)
    /\ dashboard.rankings # None
    /\ dashboard.rankings.options = DbRead("premium_summary", 0)

\* the values a success answer to the method's request can leave stored
OkValues(op, ticker) ==
    IF op = "get_ticker_details"
    THEN {DictGet(resp.body, "results", EmptyDict) :
             resp \in {r \in Answers(op) : ReportsOk(r)}}
    ELSE {PrevCloseData(ticker, resp.body.results.items[1]) :
             resp \in {r \in Answers(op) : ReportsOk(r) /\ ~EmptyResults(r)}}

CacheableOps == {"get_ticker_details", "get_previous_close"}

\* C20: every entry of a client's cache was stored by a call on that same
\* client that sent a request with its key and got a status-OK answer: no
\* answer without status OK ever changes the cache, an entry appears or
\* changes only in such a call, with a value a status-OK answer gives; a
\* client keeps its key and tier for life, so a client without a key never
\* has an entry and a value served from the cache was obtained under the
\* key and tier of the client that serves it.
C20_CacheProvenance ==
    /\ [](api_key = "" => cache = << >>)
    /\ [](\A x \in DOMAIN cache : stored_by[x] = instance)
    /\ [][/\ instance' = instance => (api_key' = api_key /\ tier' = tier)
          /\ \A op \in CacheableOps :
                (last'.op = op /\ last'.reqs # <<>>) =>
                   \A resp \in Answers(op) :
                      ~ReportsOk(resp) =>
                         LET o == Outcome(op, last'.arg, resp)
                         IN  o.cache = cache /\ o.expiry = cache_expiry
          /\ \A x \in DOMAIN cache' :
                (x \notin DOMAIN cache \/ cache'[x] # cache[x]) =>
                   /\ instance' = instance
                   /\ last'.op \in CacheableOps
                   /\ x = CacheKey(last'.op, last'.arg)
                   /\ Len(last'.reqs) = 1
                   /\ last'.reqs[1].apiKey = api_key /\ api_key # ""
                   /\ cache'[x] \in OkValues(last'.op, last'.arg)
                   /\ stored_by'[x] = instance
          /\ (last'.op \in CacheableOps /\ last'.reqs = <<>> /\ last'.ret # None) =>
                LET key == CacheKey(last'.op, last'.arg)
                IN  /\ key \in DOMAIN cache
                    /\ last'.ret = cache[key]
                    /\ stored_by[key] = instance]_vars

\* the third client, built under k1, serves from its cache a previous close
\* it stored itself, while the settings already name another key
C20_Witness ==
    /\ instance = 3
    /\ api_key = "k1"
    /\ PersistedKey = "k2"
    /\ last.op = "get_previous_close"
    /\ last.reqs = <<>>
    /\ last.ret = cache[<<"prev_close", last.arg>>]
    /\ stored_by[<<"prev_close", last.arg>>] = 3

\* C21: get_ticker_details and get_previous_close look up and store under
\* the ticker exactly as passed, while their request (and the ticker field
\* of the previous-close record) carries the upper-cased ticker: a call
\* touches no entry but the one of its own spelling, and with a key and no
\* entry under its own spelling it sends its request even when an entry
\* under the other spelling is stored and fresh.
C21_CaseSensitiveKey ==
    [][\A op \in CacheableOps :
         LET key == CacheKey(op, last'.arg)
         IN  last'.op = op =>
                /\ \A n \in DOMAIN last'.reqs :
                      /\ last'.reqs[n].path = CachePathOf(op)
                      /\ last'.reqs[n].sym = Upper(last'.arg)
                /\ \A x \in DOMAIN cache' :
                      x # key => (x \in DOMAIN cache /\ cache'[x] = cache[x]
                                   /\ cache_expiry'[x] = cache_expiry[x])
                /\ (key \notin DOMAIN cache /\ api_key # "") => Len(last'.reqs) = 1
                /\ last'.reqs = <<>> =>
                      (last'.ret = None \/ (key \in DOMAIN cache /\ last'.ret = cache[key]))
                /\ (op = "get_previous_close" /\ last'.ret.py = "dict") =>
                      last'.ret.ticker = Upper(last'.arg)]_vars

\* with the previous close of "AAPL" stored and fresh, the call for "aapl"
\* sent a request for AAPL and stored a second entry
C21_Witness ==
    /\ last.op = "get_previous_close"
    /\ last.arg = "aapl"
    /\ Len(last.reqs) = 1
    /\ last.reqs[1].sym = "AAPL"
    /\ <<"prev_close", "AAPL">> \in DOMAIN cache
    /\ now < cache_expiry[<<"prev_close", "AAPL">>]
    /\ <<"prev_close", "aapl">> \in DOMAIN cache
    /\ cache[<<"prev_close", "aapl">>].ticker = "AAPL"

\* C23: the cache map and the expiry map of a client always have the same
\* keys, and the expiry recorded for a stored value is the instant it was
\* stored plus its ttl, never the default minimum a lookup falls back to.
C23_SameKeySets ==
    /\ DOMAIN cache = DOMAIN cache_expiry
    /\ \A x \in DOMAIN cache :
          LET ttl == IF x[1] = "ticker_details" THEN TICKER_DETAILS_TTL ELSE PREV_CLOSE_TTL
          IN  /\ cache_expiry[x] > DATETIME_MIN
              /\ cache_expiry[x] - ttl >= 0
              /\ cache_expiry[x] - ttl <= now

\* a lookup found a fresh value while both maps hold the same two keys, one
\* of them expired
C23_Witness ==
    /\ last.op = "_get_cached"
    /\ last.ret # None
    /\ Cardinality(DOMAIN cache) = 2
    /\ DOMAIN cache_expiry = DOMAIN cache
    /\ \E x \in DOMAIN cache : now >= cache_expiry[x]

\* the sum of one amount over the positions the table holds
SumOver(field) ==
    LET S[n \in 0..Len(positions_data)] ==
            IF n = 0 THEN 0
            ELSE S[n - 1] + (IF field \in DOMAIN positions_data[n]
                             THEN positions_data[n][field].v ELSE 0)
    IN  S[Len(positions_data)]

\* C22: once update_data has run, the table has one row per position and a
\* last row TOTAL whose amounts are the sums of cc_premium, csp_premium and
\* total_premium over the positions; a selection change emits
\* position_selected with positions[i] when the selected row i is below
\* len(positions), and nothing when it is the TOTAL row, when the list is
\* empty or when no row is selected; update_data itself emits nothing.
C22_TotalRowAndSelection ==
    /\ [](table # << >> =>
            /\ Len(table) = Len(positions_data) + 1
            /\ table[Len(table)] = <<Text("TOTAL"),
                                      format_currency(SumOver("cc_premium")),
                                      format_currency(SumOver("csp_premium")),
                                      format_currency(SumOver("total_premium"))>>
            /\ \A n \in 1..Len(positions_data) :
                  table[n][1] = Text(positions_data[n].ticker))
    /\ [][/\ last'.op = "_on_selection_changed" =>
                last'.ret = IF last'.arg >= 0 /\ last'.arg < Len(positions_data)
                            THEN positions_data[last'.arg + 1] ELSE None
          /\ last'.op = "update_data" =>
                /\ last'.ret = None
                /\ Len(table') = last'.arg + 1]_vars

\* with two positions shown, of which one lacks its call and put premiums,
\* the TOTAL row was selected and nothing was emitted
C22_Witness ==
    /\ last.op = "_on_selection_changed"
    /\ Len(positions_data) = 2
    /\ last.arg = 2
    /\ selected = 2
    /\ last.ret = None
    /\ table[3] = <<Text("TOTAL"), format_currency(10000), format_currency(5000),
                    format_currency(45000)>>

====
